---- MODULE Spec2Model ----
(***************************************************************************)
(* Per-node gossip state machine of cluster-mocks (src/src/gossip.rs):     *)
(* the CRDS table with versioned upsert, the per-round algorithm of        *)
(* Node::run_gossip (rotate, consume_packets, send_prunes,                 *)
(* refresh_entries, push fan-out).                                         *)
(*                                                                         *)
(* PushActiveSet, ReceivedCache and Router are collaborators whose code is *)
(* not part of gossip.rs; they are modelled from their description in      *)
(* spec.md (sections 4.3, 4.4 and 6).                                      *)
(***************************************************************************)
EXTENDS Integers, Sequences, FiniteSets, Bags, TLC

VARIABLES
    config,             \* Config passed to every run_gossip call (immutable)
    stakes,             \* the stake snapshot passed to every call (immutable)
    num_gossip_rounds,  \* Node.num_gossip_rounds, per node
    table,              \* Node.table: CrdsKey -> CrdsEntry, per node
    active_set,         \* Node.active_set (PushActiveSet), per node
    received_cache,     \* Node.received_cache (ReceivedCache), per node
    receiver,           \* Node.receiver: the node's inbound channel (FIFO)
    dropped,            \* nodes whose inbound channel has been dropped
    pruned_by,          \* per node, the <<from, origin>> pairs of the Prune
                        \* packets it consumed since its last rotation
    last                \* observation of the most recent run_gossip call

vars == <<config, stakes, num_gossip_rounds, table, active_set, received_cache,
          receiver, dropped, pruned_by, last>>

----------------------------------------------------------------------------
(* Bounds of the model.                                                     *)

\* Rounds run in all, over all nodes (guard of run_gossip).
MaxRounds == 4

\* Nodes whose channel may be dropped during a run.
MaxDropped == 1

\* Largest ordinal of the tables and packets upsert is tried on.
MaxOrdinal == 3

\* Consecutive upsert calls tried on one table.
MaxCalls == 2

----------------------------------------------------------------------------
(* Cluster and configuration.                                               *)

\* Cluster members (one Node and one inbound channel each).
Nodes == {"A", "B", "C"}

\* num_dups is a u8.
U8Max == 255

\* An f64 rate x is held as [int |-> floor(x), frac |-> (x % 1.0 # 0)].
Rate(i, f) == [int |-> i, frac |-> f]

\* floor(x) + rng.gen_bool(x % 1.0) as usize, with the Bernoulli outcome b.
WithBernoulli(x, b) == x.int + (IF b /\ x.frac THEN 1 ELSE 0)

\* The outcomes rng.gen_bool(x % 1.0) can have.
Bernoulli(x) == IF x.frac THEN BOOLEAN ELSE {FALSE}

\* stakes.get(&pubkey).copied().unwrap_or_default()
StakeOf(p) == IF p \in DOMAIN stakes THEN stakes[p] ELSE 0

----------------------------------------------------------------------------
(* Value types.                                                             *)

\* CrdsKey { origin, index }
CrdsKey(origin, index) == [origin |-> origin, index |-> index]

\* CrdsEntry { ordinal, num_dups }
CrdsEntry(ordinal, num_dups) == [ordinal |-> ordinal, num_dups |-> num_dups]

\* Packet::Push { from, key, ordinal }
Push(from, key, ordinal) ==
    [type |-> "Push", from |-> from, key |-> key, ordinal |-> ordinal]

\* Packet::Prune { from, origins }; origins is a Vec, held as a bag: the order
\* follows HashSet iteration and no reader depends on it.
Prune(from, origins) == [type |-> "Prune", from |-> from, origins |-> origins]

\* u8::saturating_add(1)
SaturatingAdd1(d) == IF d < U8Max THEN d + 1 ELSE U8Max

\* Sequences over S that list every element of S exactly once.
RECURSIVE Perms(_)
Perms(S) ==
    IF S = {}
    THEN {<<>>}
    ELSE UNION {{<<x>> \o p : p \in Perms(S \ {x})} : x \in S}

----------------------------------------------------------------------------
(* Node::upsert                                                             *)

\* upsert with the Ordering::Greater arm overwriting like the Less arm.
upsert_AcceptsOutdated(tbl, key, ordinal) ==
    [table |-> [k \in DOMAIN tbl \cup {key} |->
                   IF k = key THEN CrdsEntry(ordinal, 0) ELSE tbl[k]],
     result |-> "Ok", num_dups |-> 0]

\* upsert with the Less arm assigning entry.ordinal only (num_dups kept).
upsert_KeepsNumDups(tbl, key, ordinal) ==
    IF key \in DOMAIN tbl
    THEN LET entry == tbl[key] IN
         CASE entry.ordinal < ordinal ->
                [table |-> [tbl EXCEPT ![key].ordinal = ordinal],
                 result |-> "Ok", num_dups |-> 0]
           [] entry.ordinal = ordinal ->
                LET d == SaturatingAdd1(entry.num_dups) IN
                [table |-> [tbl EXCEPT ![key].num_dups = d],
                 result |-> "Duplicate", num_dups |-> d]
           [] entry.ordinal > ordinal ->
                [table |-> tbl, result |-> "Outdated", num_dups |-> 0]
    ELSE [table |-> [k \in DOMAIN tbl \cup {key} |->
                        IF k = key THEN CrdsEntry(ordinal, 0) ELSE tbl[k]],
          result |-> "Ok", num_dups |-> 0]

\* upsert with the Ordering::Greater arm removing the entry (a stale arrival
\* taken for a tombstone).
upsert_DropsOutdated(tbl, key, ordinal) ==
    IF key \in DOMAIN tbl
    THEN LET entry == tbl[key] IN
         CASE entry.ordinal < ordinal ->
                [table |-> [tbl EXCEPT ![key] = CrdsEntry(ordinal, 0)],
                 result |-> "Ok", num_dups |-> 0]
           [] entry.ordinal = ordinal ->
                LET d == SaturatingAdd1(entry.num_dups) IN
                [table |-> [tbl EXCEPT ![key].num_dups = d],
                 result |-> "Duplicate", num_dups |-> d]
           [] entry.ordinal > ordinal ->
                [table |-> [k \in DOMAIN tbl \ {key} |-> tbl[k]],
                 result |-> "Outdated", num_dups |-> 0]
    ELSE [table |-> [k \in DOMAIN tbl \cup {key} |->
                        IF k = key THEN CrdsEntry(ordinal, 0) ELSE tbl[k]],
          result |-> "Ok", num_dups |-> 0]

\* upsert with the Equal arm using wrapping_add: 255 + 1 wraps to 0.
upsert_WrappingAdd(tbl, key, ordinal) ==
    IF key \in DOMAIN tbl
    THEN LET entry == tbl[key] IN
         CASE entry.ordinal < ordinal ->
                [table |-> [tbl EXCEPT ![key] = CrdsEntry(ordinal, 0)],
                 result |-> "Ok", num_dups |-> 0]
           [] entry.ordinal = ordinal ->
                LET d == (entry.num_dups + 1) % (U8Max + 1) IN
                [table |-> [tbl EXCEPT ![key].num_dups = d],
                 result |-> "Duplicate", num_dups |-> d]
           [] entry.ordinal > ordinal ->
                [table |-> tbl, result |-> "Outdated", num_dups |-> 0]
    ELSE [table |-> [k \in DOMAIN tbl \cup {key} |->
                        IF k = key THEN CrdsEntry(ordinal, 0) ELSE tbl[k]],
          result |-> "Ok", num_dups |-> 0]

\* The table after upsert(key, ordinal) and its result:
\* "Ok", "Outdated" or "Duplicate" (with the new num_dups).
upsert(tbl, key, ordinal) ==
    IF key \in DOMAIN tbl
    THEN LET entry == tbl[key] IN
         CASE entry.ordinal < ordinal ->
                [table |-> [tbl EXCEPT ![key] = CrdsEntry(ordinal, 0)],
                 result |-> "Ok", num_dups |-> 0]
           [] entry.ordinal = ordinal ->
                LET d == SaturatingAdd1(entry.num_dups) IN
                [table |-> [tbl EXCEPT ![key].num_dups = d],
                 result |-> "Duplicate", num_dups |-> d]
           [] entry.ordinal > ordinal ->
                [table |-> tbl, result |-> "Outdated", num_dups |-> 0]
    ELSE [table |-> [k \in DOMAIN tbl \cup {key} |->
                        IF k = key THEN CrdsEntry(ordinal, 0) ELSE tbl[k]],
          result |-> "Ok", num_dups |-> 0]

----------------------------------------------------------------------------
(* PushActiveSet (spec.md 4.4): a sequence of [node, pruned] entries, in   *)
(* the order get_nodes yields them; pruned is the peer's filter of origins. *)

RECURSIVE Log2(_)
Log2(s) == IF s <= 1 THEN 0 ELSE 1 + Log2(s \div 2)

\* The logarithmic stake bucket of a peer; zero stake falls in the smallest.
StakeBucket(p) == Log2(StakeOf(p))

Min(a, b) == IF a <= b THEN a ELSE b

\* The peer sets rotate may draw: from each bucket, size_per_bucket peers of
\* the candidates (all of them if the bucket holds fewer).
Draws(size_per_bucket, candidates) ==
    {D \in SUBSET candidates :
        \A p \in candidates :
            LET bucket == {q \in candidates : StakeBucket(q) = StakeBucket(p)} IN
            Cardinality(D \cap bucket) = Min(size_per_bucket, Cardinality(bucket))}

\* PushActiveSet::rotate: the active sets it may build; every drawn peer
\* starts with an empty filter.
PushActiveSet_rotate(size_per_bucket, candidates) ==
    UNION {{[i \in DOMAIN q |-> [node |-> q[i], pruned |-> {}]] : q \in Perms(D)} :
              D \in Draws(size_per_bucket, candidates)}

\* PushActiveSet::get_nodes: the peers whose filter does not hold origin.
PushActiveSet_get_nodes(as, origin) ==
    LET kept == SelectSeq(as, LAMBDA e : origin \notin e.pruned) IN
    [i \in DOMAIN kept |-> kept[i].node]

\* PushActiveSet::prune flipping the origins in from's filter instead of
\* adding them.
PushActiveSet_prune_Flips(as, from, origins) ==
    [i \in DOMAIN as |->
        IF as[i].node = from
        THEN [as[i] EXCEPT !.pruned = (@ \ BagToSet(origins))
                                         \cup (BagToSet(origins) \ @)]
        ELSE as[i]]

\* PushActiveSet::prune: mark the origins in from's filter.
PushActiveSet_prune(as, from, origins) ==
    [i \in DOMAIN as |->
        IF as[i].node = from
        THEN [as[i] EXCEPT !.pruned = @ \cup BagToSet(origins)]
        ELSE as[i]]

----------------------------------------------------------------------------
(* ReceivedCache (spec.md 4.3): per origin, the peers that delivered its   *)
(* values. The per-peer counters only rank the peers inside prune; the      *)
(* model leaves that ranking open and keeps the peers.                      *)

\* ReceivedCache::record(origin, peer, dup_weight)
ReceivedCache_record(cache, origin, peer) ==
    [cache EXCEPT ![origin] = @ \cup {peer}]

\* ReceivedCache::prune: the peer sets it may return for origin. Nothing when
\* fewer than min_ingress_nodes peers are recorded; otherwise at least
\* min_ingress_nodes recorded peers are kept.
ReceivedCache_prune(cache, origin, min_ingress_nodes) ==
    LET peers == cache[origin] IN
    IF Cardinality(peers) < min_ingress_nodes
    THEN {{}}
    ELSE {S \in SUBSET peers : Cardinality(peers \ S) >= min_ingress_nodes}

----------------------------------------------------------------------------
(* Node::consume_packets                                                    *)

\* ConsumeOutput::default() around the node's state before the drain.
\* num_accepted and records are not fields of ConsumeOutput: they count the
\* Ok(()) arms taken and list the received_cache.record calls made (origin,
\* from, num_dups or max), each with the upsert that led to it: its key and
\* ordinal, its result, and the key's entry before (had, old) and after (new).
ConsumeStart(tbl, cache, as) ==
    [table |-> tbl, received_cache |-> cache, active_set |-> as,
     keys |-> {}, num_prunes |-> 0, num_outdated |-> 0, num_duplicates |-> 0,
     num_accepted |-> 0, records |-> <<>>]

\* The observation of one received_cache.record call (w is its num_dups
\* argument, max says it is usize::MAX) and of the upsert u that led to it.
ConsumeRecord(c, packet, u, w, max) ==
    [origin |-> packet.key.origin, from |-> packet.from,
     num_dups |-> w, max |-> max,
     key |-> packet.key, ordinal |-> packet.ordinal, result |-> u.result,
     had |-> packet.key \in DOMAIN c.table,
     old |-> IF packet.key \in DOMAIN c.table
             THEN c.table[packet.key] ELSE CrdsEntry(0, 0),
     new |-> IF packet.key \in DOMAIN u.table
             THEN u.table[packet.key] ELSE CrdsEntry(0, 0)]

\* ConsumePush with the Outdated arm counting the packet only (no
\* received_cache.record call).
ConsumePush_OutdatedUnrecorded(c, packet) ==
    LET u == upsert(c.table, packet.key, packet.ordinal)
        cache == ReceivedCache_record(c.received_cache, packet.key.origin,
                                      packet.from)
    IN CASE u.result = "Ok" ->
              [c EXCEPT !.table = u.table, !.received_cache = cache,
                        !.keys = @ \cup {packet.key},
                        !.num_accepted = @ + 1,
                        !.records = Append(@, ConsumeRecord(c, packet, u, 0, FALSE))]
         [] u.result = "Outdated" ->
              [c EXCEPT !.num_outdated = @ + 1]
         [] u.result = "Duplicate" ->
              [c EXCEPT !.table = u.table, !.received_cache = cache,
                        !.num_duplicates = @ + 1,
                        !.records = Append(@, ConsumeRecord(c, packet, u,
                                                            u.num_dups, FALSE))]

\* ConsumePush with the Duplicate arm also inserting the key into out.keys.
ConsumePush_ForwardsDuplicate(c, packet) ==
    LET u == upsert(c.table, packet.key, packet.ordinal)
        cache == ReceivedCache_record(c.received_cache, packet.key.origin,
                                      packet.from)
    IN CASE u.result = "Ok" ->
              [c EXCEPT !.table = u.table, !.received_cache = cache,
                        !.keys = @ \cup {packet.key},
                        !.num_accepted = @ + 1,
                        !.records = Append(@, ConsumeRecord(c, packet, u, 0, FALSE))]
         [] u.result = "Outdated" ->
              [c EXCEPT !.table = u.table, !.received_cache = cache,
                        !.num_outdated = @ + 1,
                        !.records = Append(@, ConsumeRecord(c, packet, u, 0, TRUE))]
         [] u.result = "Duplicate" ->
              [c EXCEPT !.table = u.table, !.received_cache = cache,
                        !.keys = @ \cup {packet.key},
                        !.num_duplicates = @ + 1,
                        !.records = Append(@, ConsumeRecord(c, packet, u,
                                                            u.num_dups, FALSE))]

\* The Packet::Push arm of `match *packet`.
ConsumePush(c, packet) ==
    LET u == upsert(c.table, packet.key, packet.ordinal)
        cache == ReceivedCache_record(c.received_cache, packet.key.origin,
                                      packet.from)
    IN CASE u.result = "Ok" ->
              [c EXCEPT !.table = u.table, !.received_cache = cache,
                        !.keys = @ \cup {packet.key},
                        !.num_accepted = @ + 1,
                        !.records = Append(@, ConsumeRecord(c, packet, u, 0, FALSE))]
         [] u.result = "Outdated" ->
              [c EXCEPT !.table = u.table, !.received_cache = cache,
                        !.num_outdated = @ + 1,
                        !.records = Append(@, ConsumeRecord(c, packet, u, 0, TRUE))]
         [] u.result = "Duplicate" ->
              [c EXCEPT !.table = u.table, !.received_cache = cache,
                        !.num_duplicates = @ + 1,
                        !.records = Append(@, ConsumeRecord(c, packet, u,
                                                            u.num_dups, FALSE))]

\* The Packet::Prune arm of `match *packet`.
ConsumePrune(c, packet) ==
    [c EXCEPT !.num_prunes = @ + 1,
              !.active_set = PushActiveSet_prune(@, packet.from, packet.origins)]

\* ConsumePacket with the Prune arm counting the packet only (no
\* active_set.prune call).
ConsumePacket_IgnoresPrune(c, packet) ==
    IF packet.type = "Push"
    THEN ConsumePush(c, packet)
    ELSE [c EXCEPT !.num_prunes = @ + 1]

\* One iteration of `for packet in packets`.
ConsumePacket(c, packet) ==
    IF packet.type = "Push"
    THEN ConsumePush(c, packet)
    ELSE ConsumePrune(c, packet)

RECURSIVE ConsumeLoop(_, _)
ConsumeLoop(c, packets) ==
    IF packets = <<>>
    THEN c
    ELSE ConsumeLoop(ConsumePacket(c, Head(packets)), Tail(packets))

\* consume_packets with num_packets counting the Push packets only.
consume_packets_CountsPushes(tbl, cache, as, packets) ==
    LET c == ConsumeLoop(ConsumeStart(tbl, cache, as), packets) IN
    [table |-> c.table, received_cache |-> c.received_cache,
     active_set |-> c.active_set, records |-> c.records,
     num_accepted |-> c.num_accepted,
     out |-> [keys |-> c.keys,
              num_packets |-> Len(SelectSeq(packets, LAMBDA p : p.type = "Push")),
              num_prunes |-> c.num_prunes, num_outdated |-> c.num_outdated,
              num_duplicates |-> c.num_duplicates]]

\* consume_packets: drains `packets` (everything in the channel) in order.
consume_packets(tbl, cache, as, packets) ==
    LET c == ConsumeLoop(ConsumeStart(tbl, cache, as), packets) IN
    [table |-> c.table, received_cache |-> c.received_cache,
     active_set |-> c.active_set, records |-> c.records,
     num_accepted |-> c.num_accepted,
     out |-> [keys |-> c.keys, num_packets |-> Len(packets),
              num_prunes |-> c.num_prunes, num_outdated |-> c.num_outdated,
              num_duplicates |-> c.num_duplicates]]

----------------------------------------------------------------------------
(* Node::refresh_entries                                                    *)

\* self.table.entry(key).or_default().ordinal += 1
\* (a u64: the wrap at 2^64 needs 2^64 refreshes of one key).
RefreshEntry(tbl, key) ==
    IF key \in DOMAIN tbl
    THEN [tbl EXCEPT ![key].ordinal = @ + 1]
    ELSE [k \in DOMAIN tbl \cup {key} |->
             IF k = key THEN CrdsEntry(1, 0) ELSE tbl[k]]

RECURSIVE refresh_entries(_, _, _)
\* The table after refreshing the drawn indices, in order.
refresh_entries(tbl, self, indices) ==
    IF indices = <<>>
    THEN tbl
    ELSE refresh_entries(RefreshEntry(tbl, CrdsKey(self, Head(indices))), self,
                         Tail(indices))

\* The keys the iterator yields.
RefreshedKeys(self, indices) == {CrdsKey(self, indices[i]) : i \in DOMAIN indices}

----------------------------------------------------------------------------
(* Node::rotate_active_set                                                  *)

\* stakes.keys().chain(table.keys().map(|key| key.origin))
Pool(tbl) == (DOMAIN stakes) \cup {k.origin : k \in DOMAIN tbl}

\* The candidate pool without the filter on self.pubkey.
Candidates_KeepsSelf(self, tbl) == Pool(tbl)

\* The candidate pool: .filter(|pubkey| pubkey != &self.pubkey)
Candidates(self, tbl) == {p \in Pool(tbl) : p # self}

\* The active sets rotate_active_set may install.
rotate_active_set(self, tbl, gossip_push_fanout) ==
    PushActiveSet_rotate(gossip_push_fanout * 3, Candidates(self, tbl))

----------------------------------------------------------------------------
(* Node::send_prunes                                                        *)

\* One received_cache.prune call per upserted key (origins is
\* keys.iter().map(|key| key.origin)): the results the calls may have.
RECURSIVE PruneSelections(_, _, _)
PruneSelections(cache, keys, min_ingress_nodes) ==
    IF keys = {}
    THEN {[k \in {} |-> {}]}
    ELSE LET key == CHOOSE k \in keys : TRUE IN
         {(key :> peers) @@ sel :
             peers \in ReceivedCache_prune(cache, key.origin, min_ingress_nodes),
             sel \in PruneSelections(cache, keys \ {key}, min_ingress_nodes)}

\* flat_map(... .zip(repeat(origin))).into_group_map(): per selected peer, the
\* origins that selected it, one occurrence per call.
into_group_map(keys, sel) ==
    [node \in UNION {sel[k] : k \in keys} |->
        [o \in {k.origin : k \in {x \in keys : node \in sel[x]}} |->
            Cardinality({k \in keys : k.origin = o /\ node \in sel[k]})]]

\* send_prunes without the grouping: one packet per (peer, origin) pair.
send_prunes_PerOrigin(self, prunes, order) ==
    LET pairs == {x \in Nodes \X Nodes :
                     x[1] \in DOMAIN prunes /\ x[2] \in DOMAIN prunes[x[1]]}
        q == CHOOSE q \in Perms(pairs) : TRUE
    IN [i \in DOMAIN q |-> [to |-> q[i][1], packet |-> Prune(self, SetToBag({q[i][2]}))]]

\* The router.send calls of send_prunes, in the order the map is iterated.
send_prunes(self, prunes, order) ==
    [i \in DOMAIN order |->
        [to |-> order[i], packet |-> Prune(self, prunes[order[i]])]]

----------------------------------------------------------------------------
(* The push fan-out loop of Node::run_gossip                                *)

\* The keys left in the order the HashSet yields them (no sort).
SortedKeys_Unsorted(keys) == Perms(keys)

\* sorted_unstable_by_key(Reverse(stake)): the orders the keys may come in.
SortedKeys(keys) ==
    {q \in Perms(keys) :
        \A i, j \in DOMAIN q :
            i < j => StakeOf(q[i].origin) >= StakeOf(q[j].origin)}

\* The fan-out rate with gossip_push_fanout used for every key.
FanoutRate_AlwaysNarrow(self, key) == config.gossip_push_fanout

\* gossip_push_wide_fanout for an own key, gossip_push_fanout otherwise.
FanoutRate(self, key) ==
    IF key.origin = self
    THEN config.gossip_push_wide_fanout
    ELSE config.gossip_push_fanout

\* The Bernoulli outcomes drawn for the keys of the round.
FanoutDraws(self, keys) ==
    {b \in [keys -> BOOLEAN] : \A k \in keys : b[k] \in Bernoulli(FanoutRate(self, k))}

\* get_nodes(..).take(gossip_push_fanout)
Take(q, n) == SubSeq(q, 1, Min(n, Len(q)))

\* PushKey with the packet carrying the next ordinal instead of the table's.
PushKey_NextOrdinal(self, tbl, as, key, b) ==
    LET packet == Push(self, key, tbl[key].ordinal + 1)
        nodes  == Take(PushActiveSet_get_nodes(as, key.origin),
                       WithBernoulli(FanoutRate(self, key), b))
    IN [i \in DOMAIN nodes |-> [to |-> nodes[i], packet |-> packet]]

\* The router.send calls of one key: the same packet to each taken peer.
PushKey(self, tbl, as, key, b) ==
    LET packet == Push(self, key, tbl[key].ordinal)
        nodes  == Take(PushActiveSet_get_nodes(as, key.origin),
                       WithBernoulli(FanoutRate(self, key), b))
    IN [i \in DOMAIN nodes |-> [to |-> nodes[i], packet |-> packet]]

RECURSIVE PushKeys(_, _, _, _, _)
\* The router.send calls of `for key in keys`, in order.
PushKeys(self, tbl, as, keys, b) ==
    IF keys = <<>>
    THEN <<>>
    ELSE PushKey(self, tbl, as, Head(keys), b[Head(keys)])
            \o PushKeys(self, tbl, as, Tail(keys), b)

----------------------------------------------------------------------------
(* Router (spec.md 6): send fails when the destination's channel is gone,   *)
(* and otherwise enqueues the packet or drops it by packet_drop_rate.       *)

\* Router::send's result for one destination.
Router_send(to) == IF to \in dropped THEN "Err" ELSE "Ok"

\* A router.send call made, with its result.
Sent(send) == [to |-> send.to, packet |-> send.packet, result |-> Router_send(send.to)]

\* Outcome with the result of router.send ignored: every send is made.
Outcome_IgnoresErr(self, sends) ==
    [result |-> "Ok", made |-> [i \in DOMAIN sends |-> Sent(sends[i])],
     n_ok |-> Len(sends)]

\* How a run of sends by `self` ends: at the first send whose destination is
\* self (assert_ne! panics before the send) or whose send fails (`?` returns).
\* `made` are the router.send calls made, `n_ok` how many of them succeeded.
Outcome(self, sends) ==
    LET stop == {i \in DOMAIN sends :
                    sends[i].to = self \/ Router_send(sends[i].to) = "Err"}
        made(n) == [i \in 1..n |-> Sent(sends[i])]
    IN IF stop = {}
       THEN [result |-> "Ok", made |-> made(Len(sends)), n_ok |-> Len(sends)]
       ELSE LET i == CHOOSE x \in stop : \A y \in stop : x <= y IN
            IF sends[i].to = self
            THEN [result |-> "Panic", made |-> made(i - 1), n_ok |-> i - 1]
            ELSE [result |-> "Err", made |-> made(i), n_ok |-> i - 1]

\* The packets of made[1..n_ok] that reach `to`, those the router drops left out.
Enqueued(made, n_ok, lost, to) ==
    LET idx == {i \in 1..n_ok : made[i].to = to /\ i \notin lost}
        F[i \in 0..n_ok] ==
            IF i = 0 THEN <<>>
            ELSE IF i \in idx THEN Append(F[i - 1], made[i].packet) ELSE F[i - 1]
    IN F[n_ok]

----------------------------------------------------------------------------
(* Node::run_gossip                                                         *)

\* The router.send calls of the round with the fan-out placed before
\* send_prunes.
RoundSends_PushesFirst(prune_sends, push_sends) == push_sends \o prune_sends

\* The router.send calls of a round, in order: those of send_prunes, then
\* those of the fan-out loop.
RoundSends(prune_sends, push_sends) == prune_sends \o push_sends

\* The <<from, origin>> pairs of the Prune packets among `packets`.
PrunedPairs(packets) ==
    UNION {{<<packets[i].from, o>> : o \in BagToSet(packets[i].origins)} :
              i \in {j \in DOMAIN packets : packets[j].type = "Prune"}}

\* The end of a round: the node's state is stored, the sends take effect.
RoundEnd(self, c, tbl, o, obs) ==
    \E lost \in (IF config.packet_drop THEN SUBSET (1..o.n_ok) ELSE {{}}) :
        /\ num_gossip_rounds' = [num_gossip_rounds EXCEPT ![self] = @ + 1]
        /\ table' = [table EXCEPT ![self] = tbl]
        /\ active_set' = [active_set EXCEPT ![self] = c.active_set]
        /\ received_cache' = [received_cache EXCEPT ![self] = c.received_cache]
        /\ receiver' = [n \in Nodes |->
                          (IF n = self THEN <<>> ELSE receiver[n])
                              \o Enqueued(o.made, o.n_ok, lost, n)]
        /\ pruned_by' = [pruned_by EXCEPT ![self] =
                             (IF obs.rotated THEN {} ELSE @)
                                 \cup PrunedPairs(receiver[self])]
        /\ last' = [obs EXCEPT !.sent = o.made, !.result = o.result]
        /\ UNCHANGED <<config, stakes, dropped>>

\* The observation of a round, before its sends are known.
Observation(self, rotated, c, sel, indices, keys, refreshed) ==
    [node |-> self, round |-> num_gossip_rounds[self] + 1, rotated |-> rotated,
     pool |-> IF rotated THEN Pool(table[self]) ELSE {},
     candidates |-> IF rotated THEN Candidates(self, table[self]) ELSE {},
     out |-> c.out, num_accepted |-> c.num_accepted, records |-> c.records,
     consumed |-> c.table,
     prune_sel |-> sel, refreshed |-> refreshed, indices |-> indices,
     keys |-> keys, sent |-> <<>>, result |-> "Ok"]

RECURSIVE SumOver(_, _)
SumOver(f, S) ==
    IF S = {} THEN 0
    ELSE LET x == CHOOSE y \in S : TRUE IN f[x] + SumOver(f, S \ {x})

\* The run_gossip calls made so far.
TotalRounds == SumOver(num_gossip_rounds, Nodes)

\* One round of node `self`.
run_gossip(self) ==
    /\ self \notin dropped
    /\ TotalRounds < MaxRounds
    /\ LET rotated ==
               (num_gossip_rounds[self] + 1) % config.rotate_active_set_rounds = 1
       IN
       \E as \in (IF rotated
                  THEN rotate_active_set(self, table[self],
                                         config.gossip_push_fanout.int)
                  ELSE {active_set[self]}) :
       LET c == consume_packets(table[self], received_cache[self], as,
                                receiver[self])
       IN
       \E sel \in PruneSelections(c.received_cache, c.out.keys,
                                  config.gossip_prune_min_ingress_nodes) :
       LET prunes == into_group_map(c.out.keys, sel) IN
       \E order \in Perms(DOMAIN prunes) :
       LET sent_prunes == Outcome(self, send_prunes(self, prunes, order)) IN
       IF sent_prunes.result # "Ok"
       THEN \* send_prunes(..)? returned: no refresh, no push.
            RoundEnd(self, c, c.table, sent_prunes,
                     Observation(self, rotated, c, sel, <<>>, <<>>, FALSE))
       ELSE
       \E r \in Bernoulli(config.refresh_rate) :
       \E indices \in [1..WithBernoulli(config.refresh_rate, r)
                           -> 0..(config.num_crds - 1)] :
       LET tbl  == refresh_entries(c.table, self, indices)
           keys == c.out.keys \cup RefreshedKeys(self, indices)
       IN
       \E sorted \in SortedKeys(keys) :
       \E b \in FanoutDraws(self, keys) :
       LET sends == RoundSends(send_prunes(self, prunes, order),
                               PushKeys(self, tbl, c.active_set, sorted, b))
       IN RoundEnd(self, c, tbl, Outcome(self, sends),
                   Observation(self, rotated, c, sel, indices, sorted, TRUE))

\* The driver stops scheduling a node and drops it with its channel
\* (spec.md 5, cancellation): later sends to it fail.
drop_node(self) ==
    /\ self \notin dropped
    /\ Cardinality(dropped) < MaxDropped
    /\ dropped' = dropped \cup {self}
    /\ receiver' = [receiver EXCEPT ![self] = <<>>]
    /\ UNCHANGED <<config, stakes, num_gossip_rounds, table, active_set,
                   received_cache, pruned_by, last>>

----------------------------------------------------------------------------
(* Configurations explored.                                                 *)

Config(push, wide, rotate, min_ingress, drop, crds, refresh) ==
    [gossip_push_fanout |-> push, gossip_push_wide_fanout |-> wide,
     rotate_active_set_rounds |-> rotate,
     gossip_prune_min_ingress_nodes |-> min_ingress,
     packet_drop |-> drop,      \* packet_drop_rate > 0
     num_crds |-> crds, refresh_rate |-> refresh]

\* Stake snapshots: every node staked, or "C" absent from the map (stake 0).
StakesAll == ("A" :> 4) @@ ("B" :> 2) @@ ("C" :> 1)
StakesNoC == ("A" :> 4) @@ ("B" :> 1)

Setup(c, s) == [config |-> c, stakes |-> s]

\* Fan-out 1.0 / 1.5 / 2.0 (the spec's 2.0 / 6.0 scaled to three nodes),
\* rotation every 1, 2 or 3 rounds, with and without loss, one or two slots
\* per node.
Setups ==
    {Setup(Config(Rate(1, FALSE), Rate(1, TRUE),  2, 1, FALSE, 1, Rate(0, TRUE)), StakesNoC),
     Setup(Config(Rate(2, FALSE), Rate(2, FALSE), 1, 1, FALSE, 1, Rate(1, FALSE)), StakesAll),
     Setup(Config(Rate(1, FALSE), Rate(1, FALSE), 3, 0, FALSE, 1, Rate(0, TRUE)), StakesNoC),
     Setup(Config(Rate(1, FALSE), Rate(1, FALSE), 2, 1, TRUE,  1, Rate(1, FALSE)), StakesNoC),
     Setup(Config(Rate(1, FALSE), Rate(2, FALSE), 2, 1, FALSE, 2, Rate(1, FALSE)), StakesNoC),
     Setup(Config(Rate(1, TRUE),  Rate(2, FALSE), 2, 1, FALSE, 1, Rate(1, TRUE)), StakesNoC),
     Setup(Config(Rate(1, FALSE), Rate(2, FALSE), 2, 1, FALSE, 1, Rate(1, FALSE)), StakesAll)}

\* make_gossip_cluster: every node starts with an empty table, the default
\* active set and an empty cache and channel.
Init ==
    /\ \E s \in Setups : config = s.config /\ stakes = s.stakes
    /\ num_gossip_rounds = [n \in Nodes |-> 0]
    /\ table = [n \in Nodes |-> [k \in {} |-> CrdsEntry(0, 0)]]
    /\ active_set = [n \in Nodes |-> <<>>]
    /\ received_cache = [n \in Nodes |-> [o \in Nodes |-> {}]]
    /\ receiver = [n \in Nodes |-> <<>>]
    /\ dropped = {}
    /\ pruned_by = [n \in Nodes |-> {}]
    /\ last = [node |-> "none", round |-> 0, rotated |-> FALSE,
               pool |-> {}, candidates |-> {},
               out |-> [keys |-> {}, num_packets |-> 0, num_prunes |-> 0,
                        num_outdated |-> 0, num_duplicates |-> 0],
               num_accepted |-> 0, records |-> <<>>,
               consumed |-> [k \in {} |-> CrdsEntry(0, 0)],
               prune_sel |-> [k \in {} |-> {}], refreshed |-> FALSE,
               indices |-> <<>>, keys |-> <<>>, sent |-> <<>>, result |-> "Ok"]

Next ==
    \/ \E self \in Nodes : run_gossip(self)
    \/ \E self \in Nodes : drop_node(self)

Spec == Init /\ [][Next]_vars

----------------------------------------------------------------------------
(* Node::upsert on its own: every small table, every key and ordinal.       *)

UpsertKeys == {CrdsKey("A", 0), CrdsKey("B", 0)}

\* Entries a table can hold; num_dups near both ends of the u8 range.
UpsertEntries ==
    {CrdsEntry(o, d) : o \in 1..MaxOrdinal, d \in {0, 1, U8Max - 1, U8Max}}

UpsertTables == UNION {[K -> UpsertEntries] : K \in SUBSET UpsertKeys}

InitUpsert ==
    /\ \E s \in Setups : config = s.config /\ stakes = s.stakes
    /\ config.num_crds = 2
    /\ num_gossip_rounds = [n \in Nodes |-> 0]
    /\ \E tbl \in UpsertTables :
          table = [n \in Nodes |-> IF n = "A" THEN tbl ELSE [k \in {} |-> CrdsEntry(0, 0)]]
    /\ active_set = [n \in Nodes |-> <<>>]
    /\ received_cache = [n \in Nodes |-> [o \in Nodes |-> {}]]
    /\ receiver = [n \in Nodes |-> <<>>]
    /\ dropped = {}
    /\ pruned_by = [n \in Nodes |-> {}]
    /\ last = [node |-> "none", calls |-> 0,
               runs |-> [k \in UpsertKeys |->
                           [start |-> IF k \in DOMAIN table["A"]
                                      THEN table["A"][k].num_dups ELSE 0,
                            count |-> 0]]]

\* self.upsert(key, ordinal), its arguments and result observed in `last`.
\* last.runs[k] follows the run of Duplicate results of key k: the num_dups
\* the entry had when its ordinal was last set (or at the start) and the
\* number of Duplicate results since.
upsert_call(self, key, ordinal) ==
    LET u == upsert(table[self], key, ordinal) IN
    /\ last.calls < MaxCalls
    /\ table' = [table EXCEPT ![self] = u.table]
    /\ last' = [node |-> self, calls |-> last.calls + 1,
                key |-> key, ordinal |-> ordinal,
                before |-> table[self], result |-> u.result,
                num_dups |-> u.num_dups,
                runs |-> CASE u.result = "Ok" ->
                                [last.runs EXCEPT ![key] = [start |-> 0, count |-> 0]]
                           [] u.result = "Duplicate" ->
                                [last.runs EXCEPT ![key].count = @ + 1]
                           [] u.result = "Outdated" -> last.runs]
    /\ UNCHANGED <<config, stakes, num_gossip_rounds, active_set,
                   received_cache, receiver, dropped, pruned_by>>

NextUpsert ==
    \E key \in UpsertKeys : \E ordinal \in 1..MaxOrdinal :
        upsert_call("A", key, ordinal)

SpecUpsert == InitUpsert /\ [][NextUpsert]_vars

----------------------------------------------------------------------------
(* Prune packets consumed one at a time by node "A", from any active set a  *)
(* first rotation can give it.                                              *)

\* The Prune packets tried: any sender but the node itself, any origins.
PrunePackets ==
    {Prune(from, SetToBag(origins)) :
        from \in Nodes \ {"A"}, origins \in SUBSET Nodes}

InitPrune ==
    /\ \E s \in Setups : config = s.config /\ stakes = s.stakes
    /\ num_gossip_rounds = [n \in Nodes |-> 0]
    /\ table = [n \in Nodes |-> [k \in {} |-> CrdsEntry(0, 0)]]
    /\ \E as \in rotate_active_set("A", table["A"], config.gossip_push_fanout.int) :
          active_set = [n \in Nodes |-> IF n = "A" THEN as ELSE <<>>]
    /\ received_cache = [n \in Nodes |-> [o \in Nodes |-> {}]]
    /\ receiver = [n \in Nodes |-> <<>>]
    /\ dropped = {}
    /\ pruned_by = [n \in Nodes |-> {}]
    /\ last = [node |-> "none", calls |-> 0]

\* consume_packets on a channel holding the one Prune `packet`.
prune_call(self, packet) ==
    LET c == consume_packets(table[self], received_cache[self],
                             active_set[self], <<packet>>) IN
    /\ last.calls < MaxCalls
    /\ active_set' = [active_set EXCEPT ![self] = c.active_set]
    /\ table' = [table EXCEPT ![self] = c.table]
    /\ received_cache' = [received_cache EXCEPT ![self] = c.received_cache]
    /\ pruned_by' = [pruned_by EXCEPT ![self] = @ \cup PrunedPairs(<<packet>>)]
    /\ last' = [node |-> self, calls |-> last.calls + 1, packet |-> packet,
                before |-> active_set[self]]
    /\ UNCHANGED <<config, stakes, num_gossip_rounds, receiver, dropped>>

NextPrune == \E packet \in PrunePackets : prune_call("A", packet)

SpecPrune == InitPrune /\ [][NextPrune]_vars

----------------------------------------------------------------------------
(* Rounds under fair scheduling, for the configurations without loss and    *)
(* with gossip_push_fanout >= 2.                                            *)

InitFair ==
    /\ Init
    /\ config.gossip_push_fanout.int >= 2
    /\ ~config.packet_drop

\* The driver keeps calling run_gossip on every node it still schedules.
SpecFair ==
    InitFair /\ [][Next]_vars /\ \A self \in Nodes : WF_vars(run_gossip(self))

----------------------------------------------------------------------------
(* get_crds_table: the most recent table across the given nodes.            *)

Max(a, b) == IF a >= b THEN a ELSE b

\* The fold step with the last table visited overwriting the ordinal.
CrdsFold_LastWins(out, key, ordinal) ==
    [k \in DOMAIN out \cup {key} |-> IF k = key THEN ordinal ELSE out[k]]

\* One step of the inner loop: out.entry(key).or_default() is 0 for a key not
\* seen yet, and the ordinal becomes u64::max of it and the entry's.
CrdsFold(out, key, ordinal) ==
    LET seen == IF key \in DOMAIN out THEN out[key] ELSE 0 IN
    [k \in DOMAIN out \cup {key} |->
        IF k = key THEN Max(seen, ordinal) ELSE out[k]]

RECURSIVE CrdsFoldTable(_, _, _)
\* The inner loop over the entries `keys` of one node's table.
CrdsFoldTable(out, tbl, keys) ==
    IF keys = {}
    THEN out
    ELSE LET key == CHOOSE k \in keys : TRUE IN
         CrdsFoldTable(CrdsFold(out, key, tbl[key].ordinal), tbl,
                       keys \ {key})

RECURSIVE CrdsFoldNodes(_, _)
\* The outer loop over the tables of the nodes, in iteration order.
CrdsFoldNodes(out, tables) ==
    IF tables = <<>>
    THEN out
    ELSE CrdsFoldNodes(CrdsFoldTable(out, Head(tables), DOMAIN Head(tables)),
                       Tail(tables))

\* get_crds_table over the tables of the nodes the iterator yields.
get_crds_table(tables) == CrdsFoldNodes([k \in {} |-> 0], tables)

----------------------------------------------------------------------------
(* Properties.                                                              *)

\* A round has been run and `last` describes it.
RoundSeen == last.node # "none"

\* The keys of the configured key space.
AllKeys == {CrdsKey(n, i) : n \in Nodes, i \in 0..(config.num_crds - 1)}

\* The ordinal node n holds for key k; 0 when k is absent.
OrdinalAt(n, k) == IF k \in DOMAIN table[n] THEN table[n][k].ordinal ELSE 0

\* Node n holds key k with an ordinal of at least o.
HoldsAtLeast(n, k, o) == k \in DOMAIN table[n] /\ table[n][k].ordinal >= o

\* The positions of the Push / Prune sends of the last round.
PushSends == {i \in DOMAIN last.sent : last.sent[i].packet.type = "Push"}
PruneSends == {i \in DOMAIN last.sent : last.sent[i].packet.type = "Prune"}

\* The router.send calls the last round made for key k.
PushesOf(k) == {i \in PushSends : last.sent[i].packet.key = k}

\* C1: for every node and every key present in its table, the key's ordinal
\* never decreases: not from one round to the next, not across any upsert of
\* the drain, and not across refresh_entries.
C1_MonotonicOrdinals ==
    /\ [][\A n \in Nodes : \A k \in DOMAIN table[n] :
            k \in DOMAIN table'[n]
                => table'[n][k].ordinal >= table[n][k].ordinal]_vars
    /\ [](RoundSeen =>
            /\ \A i \in DOMAIN last.records :
                  last.records[i].had
                      => last.records[i].new.ordinal >= last.records[i].old.ordinal
            /\ \A k \in DOMAIN last.consumed :
                  /\ k \in DOMAIN table[last.node]
                  /\ table[last.node][k].ordinal >= last.consumed[k].ordinal)

\* C1 witness: a round in which a Push with an older ordinal was consumed
\* (upsert returned Outdated) by a node holding a newer one.
C1_Witness ==
    RoundSeen /\ last.out.num_outdated > 0
    /\ \E k \in DOMAIN table[last.node] : table[last.node][k].ordinal >= 2

\* C2: for every key, no node's table and no Push in flight carries an
\* ordinal above the one its origin holds, and the ordinal the origin holds
\* rises only in a round of the origin that refreshes that key.
C2_OwnOrdinalOwnership ==
    /\ [](/\ \A m \in Nodes : \A k \in DOMAIN table[m] :
                table[m][k].ordinal <= OrdinalAt(k.origin, k)
          /\ \A m \in Nodes : \A i \in DOMAIN receiver[m] :
                receiver[m][i].type = "Push" =>
                    receiver[m][i].ordinal
                        <= OrdinalAt(receiver[m][i].key.origin, receiver[m][i].key))
    /\ [][\A k \in AllKeys :
            OrdinalAt(k.origin, k)' > OrdinalAt(k.origin, k) =>
                /\ last'.node = k.origin
                /\ last'.refreshed
                /\ k \in RefreshedKeys(k.origin, last'.indices)]_vars

\* C2 witness: a node holds a copy of another node's key that lags behind the
\* ordinal the origin has minted since.
C2_Witness ==
    \E m \in Nodes : \E k \in DOMAIN table[m] :
        k.origin # m /\ table[m][k].ordinal < OrdinalAt(k.origin, k)

\* C3: no round sends a Push (or any packet) to the node running it, the
\* candidate pool of a rotation never holds that node, the assert_ne! of the
\* fan-out loop never fires, and no channel holds a Push from its own node.
C3_SelfExclusion ==
    /\ RoundSeen =>
          /\ \A i \in DOMAIN last.sent : last.sent[i].to # last.node
          /\ last.node \notin last.candidates
          /\ last.result # "Panic"
    /\ \A n \in Nodes :
          /\ \A i \in DOMAIN active_set[n] : active_set[n][i].node # n
          /\ \A i \in DOMAIN receiver[n] :
                receiver[n][i].type = "Push" => receiver[n][i].from # n

\* C3 witness: a rotation of a node that is itself in the unfiltered pool
\* through an own key in its table only ("C" has no stake), followed by
\* pushes in that round.
C3_Witness ==
    /\ RoundSeen /\ last.rotated /\ PushSends # {}
    /\ last.node \in last.pool /\ last.node \notin DOMAIN stakes

C5_UpsertFourCases ==
    RoundSeen =>
        LET before == last.before
            after  == table[last.node]
            k      == last.key
        IN /\ DOMAIN after = DOMAIN before \cup {k}
           /\ \A x \in DOMAIN before : x # k => after[x] = before[x]
           /\ IF k \notin DOMAIN before \/ before[k].ordinal < last.ordinal
              THEN /\ after[k] = [ordinal |-> last.ordinal, num_dups |-> 0]
                   /\ last.result = "Ok"
              ELSE IF before[k].ordinal = last.ordinal
              THEN /\ after[k].ordinal = before[k].ordinal
                   /\ after[k].num_dups =
                         (IF before[k].num_dups = 255 THEN 255
                                                      ELSE before[k].num_dups + 1)
                   /\ last.result = "Duplicate"
                   /\ last.num_dups = after[k].num_dups
              ELSE /\ after[k] = before[k]
                   /\ last.result = "Outdated"

\* C5 witness: the Duplicate case taken on an entry whose num_dups is at the
\* top of the u8 range (the increment saturates).
C5_Witness ==
    /\ RoundSeen /\ last.result = "Duplicate"
    /\ last.before[last.key].num_dups = 255
    /\ table[last.node][last.key].num_dups = 255

\* C6: in every step in which the ordinal of an entry rises, the entry's
\* num_dups is 0 after the step.
C6_NumDupsResets ==
    [][\A n \in Nodes : \A k \in DOMAIN table[n] :
          (k \in DOMAIN table'[n] /\ table'[n][k].ordinal > table[n][k].ordinal)
              => table'[n][k].num_dups = 0]_vars

\* C7: round r of a node rotates the active set exactly when r is one of
\* 1, N+1, 2N+1, ... for N = rotate_active_set_rounds.
C7_RotationCadence ==
    RoundSeen =>
        (last.rotated <=> (last.round - 1) % config.rotate_active_set_rounds = 0)

\* How often origin o must be listed for peer p: once per upserted key of
\* origin o whose received_cache.prune call selected p.
Selections(p, o) ==
    Cardinality({k \in last.out.keys : k.origin = o /\ p \in last.prune_sel[k]})

\* C8 (amended): a round sends at most one Prune per destination; the packet
\* is from the sending node and lists exactly the origins whose
\* received_cache.prune selected the destination, one occurrence per call
\* that selected it; a round whose sends all succeed sends one to every
\* selected peer.
C8_PruneGrouping ==
    RoundSeen =>
        /\ \A i, j \in PruneSends : last.sent[i].to = last.sent[j].to => i = j
        /\ \A i \in PruneSends :
              LET p == last.sent[i].to
                  origins == last.sent[i].packet.origins
              IN /\ last.sent[i].packet.from = last.node
                 /\ DOMAIN origins = {o \in Nodes : Selections(p, o) > 0}
                 /\ \A o \in DOMAIN origins : origins[o] = Selections(p, o)
        /\ last.result = "Ok" =>
              \A k \in last.out.keys : \A p \in last.prune_sel[k] :
                  \E i \in PruneSends : last.sent[i].to = p

\* C8 as stated: as above, with every listed origin listed once.
C8_PruneGroupingEachOnce ==
    RoundSeen =>
        /\ \A i, j \in PruneSends : last.sent[i].to = last.sent[j].to => i = j
        /\ \A i \in PruneSends :
              LET p == last.sent[i].to
                  origins == last.sent[i].packet.origins
              IN /\ last.sent[i].packet.from = last.node
                 /\ DOMAIN origins = {o \in Nodes : Selections(p, o) > 0}
                 /\ \A o \in DOMAIN origins : origins[o] = 1

\* C8 witness: two origins selected the same peer in one round and one Prune
\* listing both was sent to it.
C8_Witness ==
    /\ RoundSeen
    /\ \E i \in PruneSends : Cardinality(DOMAIN last.sent[i].packet.origins) >= 2

\* The rate the claim gives key k in the last round, and the fan-outs it allows.
ClaimedRate(k) ==
    IF k.origin = last.node
    THEN config.gossip_push_wide_fanout
    ELSE config.gossip_push_fanout

ClaimedFanouts(k) ==
    {ClaimedRate(k).int} \cup
        (IF ClaimedRate(k).frac THEN {ClaimedRate(k).int + 1} ELSE {})

\* The active-set peers eligible for key k in the last round (the set is not
\* touched between the fan-out and the node's next round).
Eligible(k) == Len(PushActiveSet_get_nodes(active_set[last.node], k.origin))

\* C9 (amended): in a round whose sends all succeed, each key is sent
\* min(fanout, eligible peers) times, fanout being floor(f) or, when f has a
\* fractional part, floor(f)+1, with f the wide rate for an own key and the
\* narrow rate otherwise; in every round it is sent at most that often.
C9_Fanout ==
    (RoundSeen /\ last.refreshed) =>
        \A i \in DOMAIN last.keys :
            LET k == last.keys[i]
                n == Cardinality(PushesOf(k))
            IN /\ \E f \in ClaimedFanouts(k) : n <= Min(f, Eligible(k))
               /\ n <= ClaimedRate(k).int + 1
               /\ last.result = "Ok" =>
                     \E f \in ClaimedFanouts(k) : n = Min(f, Eligible(k))

\* C9 as stated: every key pushed in a round is sent min(fanout, eligible
\* peers) times.
C9_FanoutEveryRound ==
    (RoundSeen /\ last.refreshed) =>
        \A i \in DOMAIN last.keys :
            LET k == last.keys[i]
                n == Cardinality(PushesOf(k))
            IN n > 0 => \E f \in ClaimedFanouts(k) : n = Min(f, Eligible(k))

\* C9 witness: a round that sent an own key to two peers and a relayed key
\* to one of two eligible peers.
C9_Witness ==
    /\ RoundSeen /\ last.result = "Ok"
    /\ \E i, j \in DOMAIN last.keys :
          /\ last.keys[i].origin = last.node
          /\ Cardinality(PushesOf(last.keys[i])) = 2
          /\ last.keys[j].origin # last.node
          /\ Cardinality(PushesOf(last.keys[j])) = 1
          /\ Eligible(last.keys[j]) = 2

\* C10: run_gossip returns Ok exactly when every router.send of the round
\* returned Ok; a failed send is the last call of the round (no retry, no
\* further packet), and a failed Prune send leaves the round without refresh
\* and without any Push.
C10_RouterFailure ==
    RoundSeen =>
        /\ last.result \in {"Ok", "Err"}
        /\ last.result = "Ok" <=>
              \A i \in DOMAIN last.sent : last.sent[i].result = "Ok"
        /\ \A i \in DOMAIN last.sent :
              last.sent[i].result = "Err" => i = Len(last.sent)
        /\ (PruneSends # {} /\ last.sent[Len(last.sent)].result = "Err"
              /\ Len(last.sent) \in PruneSends)
              => (~last.refreshed /\ PushSends = {})

\* C10 witness: a round that sent packets and then returned the error of a
\* Push whose destination's channel was gone.
C10_Witness ==
    /\ RoundSeen /\ last.result = "Err" /\ Len(last.sent) >= 2
    /\ Len(last.sent) \in PushSends

\* C11: the i-th Duplicate in a row for a key whose entry had num_dups d
\* returns Duplicate(min(d + i, 255)) and stores that value; num_dups stays
\* within 0..255, a Duplicate never lowers it, and the call at 255 is an
\* ordinary Duplicate.
C11_DuplicateSaturates ==
    /\ \A k \in DOMAIN table["A"] : table["A"][k].num_dups \in 0..255
    /\ (RoundSeen /\ last.key \in DOMAIN last.before
            /\ last.before[last.key].ordinal = last.ordinal) =>
          LET run == last.runs[last.key] IN
          /\ last.result = "Duplicate"
          /\ run.count >= 1
          /\ last.num_dups = Min(run.start + run.count, 255)
          /\ table[last.node][last.key].num_dups = last.num_dups
          /\ last.num_dups >= last.before[last.key].num_dups

\* C11 witness: the second Duplicate in a row on an entry that started at
\* num_dups 254: 254 + 2 is cut to 255.
C11_Witness ==
    /\ RoundSeen /\ last.result = "Duplicate"
    /\ last.runs[last.key].start = 254 /\ last.runs[last.key].count = 2
    /\ last.num_dups = 255

\* C12: no round of a node sends a Push for a key of origin o to a peer P
\* from which the node consumed a Prune listing o, in that round (the drain
\* comes before the fan-out) or in an earlier round since the node's last
\* rotation.
C12_PruneTakesEffect ==
    RoundSeen =>
        \A i \in PushSends :
            <<last.sent[i].to, last.sent[i].packet.key.origin>>
                \notin pruned_by[last.node]

\* C12 witness: a round without rotation and without a Prune in its drain
\* that pushed a key of origin o while a peer of the active set was still
\* pruned for o by a Prune consumed in an earlier round.
C12_Witness ==
    /\ RoundSeen /\ ~last.rotated /\ last.out.num_prunes = 0
    /\ \E i \in PushSends : \E j \in DOMAIN active_set[last.node] :
          <<active_set[last.node][j].node, last.sent[i].packet.key.origin>>
              \in pruned_by[last.node]

\* The Push packets of a drained channel, in order.
PushesIn(packets) == SelectSeq(packets, LAMBDA p : p.type = "Push")

\* The entry of key k after the first n record calls of the last round, the
\* table before the drain being tbl; CrdsEntry(0, 0) stands for no entry.
RECURSIVE EntryAfter(_, _, _, _)
EntryAfter(tbl, recs, n, k) ==
    IF n = 0
    THEN (IF k \in DOMAIN tbl THEN tbl[k] ELSE CrdsEntry(0, 0))
    ELSE IF recs[n].key = k THEN recs[n].new
    ELSE EntryAfter(tbl, recs, n - 1, k)

\* C13: in every round the drain makes one received_cache.record call per
\* consumed Push, in order, for (key.origin, from), with weight 0 and the key
\* joining the upserted set when the Push is Accepted, the new num_dups and
\* num_duplicates + 1 when Duplicate, the maximum and num_outdated + 1 when
\* Outdated; the Prune packets of the drain make no record call, add no peer
\* to the received cache and leave the table alone.
C13_ProvenanceRecording ==
    [][\A n \in Nodes :
          num_gossip_rounds'[n] # num_gossip_rounds[n] =>
            LET pushes == PushesIn(receiver[n])
                recs   == last'.records
                Is(r)  == {i \in DOMAIN recs : recs[i].result = r}
            IN /\ last'.node = n
               /\ Len(recs) = Len(pushes)
               /\ \A i \in DOMAIN recs :
                     LET before == EntryAfter(table[n], recs, i - 1, pushes[i].key)
                         had    == before # CrdsEntry(0, 0)
                     IN /\ recs[i].origin = pushes[i].key.origin
                        /\ recs[i].from = pushes[i].from
                        /\ recs[i].key = pushes[i].key
                        /\ IF ~had \/ before.ordinal < pushes[i].ordinal
                           THEN /\ recs[i].result = "Ok"
                                /\ recs[i].num_dups = 0 /\ ~recs[i].max
                                /\ recs[i].key \in last'.out.keys
                           ELSE IF before.ordinal = pushes[i].ordinal
                           THEN /\ recs[i].result = "Duplicate"
                                /\ ~recs[i].max
                                /\ recs[i].num_dups =
                                      (IF before.num_dups = 255 THEN 255
                                       ELSE before.num_dups + 1)
                                /\ recs[i].new.num_dups = recs[i].num_dups
                           ELSE /\ recs[i].result = "Outdated"
                                /\ recs[i].max
               /\ last'.out.keys = {recs[i].key : i \in Is("Ok")}
               /\ last'.out.num_duplicates = Cardinality(Is("Duplicate"))
               /\ last'.out.num_outdated = Cardinality(Is("Outdated"))
               /\ last'.out.num_prunes = Len(receiver[n]) - Len(pushes)
               /\ \A o \in Nodes :
                     received_cache'[n][o] =
                        received_cache[n][o]
                           \cup {recs[i].from : i \in {j \in DOMAIN recs : recs[j].origin = o}}
               /\ DOMAIN last'.consumed =
                     DOMAIN table[n] \cup {recs[i].key : i \in DOMAIN recs}
               /\ \A k \in DOMAIN last'.consumed :
                     last'.consumed[k] = EntryAfter(table[n], recs, Len(recs), k)]_vars

\* C13 witness: a round whose drain held a Prune and Push packets of which
\* one was not Accepted.
C13_Witness ==
    /\ RoundSeen /\ last.out.num_prunes >= 1
    /\ \E i \in DOMAIN last.records : last.records[i].result # "Ok"

\* q is a prefix of r.
IsPrefix(q, r) == Len(q) <= Len(r) /\ \A i \in DOMAIN q : q[i] = r[i]

\* C14: in every round every Prune is sent before every Push; the Prune
\* origins are origins of keys accepted in the drain; a round that refreshed
\* had sent a Prune to every selected peer before, and a round that did not
\* (a Prune send failed) left the table as the drain left it and sent no
\* Push. A round drains exactly the packets in the channel at its start, and
\* packets enqueued later change nothing of the node (table, received cache,
\* active set): they wait in the channel until the node's next round.
C14_PhaseOrdering ==
    /\ [](RoundSeen =>
            /\ \A i \in PruneSends : \A j \in PushSends : i < j
            /\ \A i \in PruneSends :
                  BagToSet(last.sent[i].packet.origins)
                      \subseteq {k.origin : k \in last.out.keys}
            /\ last.refreshed =>
                  {last.sent[i].to : i \in PruneSends}
                      = UNION {last.prune_sel[k] : k \in last.out.keys}
            /\ ~last.refreshed =>
                  /\ PushSends = {}
                  /\ last.indices = <<>>
                  /\ table[last.node] = last.consumed)
    /\ [][\A n \in Nodes :
            IF num_gossip_rounds'[n] # num_gossip_rounds[n]
            THEN /\ last'.node = n
                 /\ last'.out.num_packets = Len(receiver[n])
                 /\ receiver'[n] = <<>>
            ELSE /\ table'[n] = table[n]
                 /\ received_cache'[n] = received_cache[n]
                 /\ active_set'[n] = active_set[n]
                 /\ n \notin dropped' => IsPrefix(receiver[n], receiver'[n])]_vars

\* C14 witness: a round that sent a Prune, then refreshed an own key and
\* pushed it, while a packet sent to the node by an earlier round of a peer
\* had been waiting in its channel.
C14_Witness ==
    /\ RoundSeen /\ PruneSends # {} /\ PushSends # {}
    /\ last.refreshed /\ last.indices # <<>>
    /\ last.out.num_packets >= 2

\* C15: consuming the Prune that was consumed just before leaves, for every
\* origin, the peers get_nodes yields as they were after the first time.
C15_PruneIdempotent ==
    [][(last.node # "none" /\ last'.packet = last.packet) =>
          \A o \in Nodes :
              PushActiveSet_get_nodes(active_set'["A"], o)
                  = PushActiveSet_get_nodes(active_set["A"], o)]_vars

\* C15 witness: the same Prune consumed twice, from a peer of the active set
\* that get_nodes skips for a listed origin and yielded before the first.
C15_Witness ==
    /\ RoundSeen /\ last.calls = 2
    /\ PushActiveSet_prune(last.before, last.packet.from, last.packet.origins)
          = last.before
    /\ \E o \in BagToSet(last.packet.origins) :
          /\ Len(PushActiveSet_get_nodes(active_set["A"], o)) < Len(active_set["A"])
          /\ pruned_by["A"] = PrunedPairs(<<last.packet>>)

\* The stake the claim gives an origin: its stake in the map, 0 if absent.
ClaimedStake(o) == IF o \in DOMAIN stakes THEN stakes[o] ELSE 0

\* C16: in every round the keys are pushed in non-increasing order of their
\* origin's stake (0 for an origin absent from the stakes map), and so are
\* the Push packets sent: none for a key of a lower-stake origin precedes
\* one for a key of a higher-stake origin.
C16_PushOrderByStake ==
    RoundSeen =>
        /\ \A i, j \in DOMAIN last.keys :
              i < j => ClaimedStake(last.keys[i].origin)
                          >= ClaimedStake(last.keys[j].origin)
        /\ \A i, j \in PushSends :
              i < j => ClaimedStake(last.sent[i].packet.key.origin)
                          >= ClaimedStake(last.sent[j].packet.key.origin)

\* C16 witness: a round that pushed a key of a staked origin and then a key
\* of an origin absent from the stakes map.
C16_Witness ==
    /\ RoundSeen
    /\ \E i, j \in PushSends :
          /\ i < j
          /\ last.sent[i].packet.key.origin \in DOMAIN stakes
          /\ stakes[last.sent[i].packet.key.origin] > 0
          /\ last.sent[j].packet.key.origin \notin DOMAIN stakes

\* C17: no step removes a key from a node's table, and within a round every
\* key the node held before, and every key a consumed Push named and upsert
\* stored or found, is in the table after the drain and at the end of the
\* round, whatever the upsert results, the Prune packets consumed, the
\* rotation and the result of the round's sends.
C17_NoDeletion ==
    [][\A n \in Nodes :
          /\ DOMAIN table[n] \subseteq DOMAIN table'[n]
          /\ num_gossip_rounds'[n] # num_gossip_rounds[n] =>
                /\ DOMAIN table[n] \subseteq DOMAIN last'.consumed
                /\ DOMAIN last'.consumed \subseteq DOMAIN table'[n]
                /\ \A i \in DOMAIN last'.records :
                      last'.records[i].key \in DOMAIN last'.consumed]_vars

\* C17 witness: a round of a node holding keys of two origins that rotated,
\* found a Push outdated or duplicate, and ended on a failed router send.
C17_Witness ==
    /\ RoundSeen /\ last.result = "Err"
    /\ \E i \in DOMAIN last.records : last.records[i].result # "Ok"
    /\ Cardinality({k.origin : k \in DOMAIN table[last.node]}) >= 2

\* The sequences of distinct nodes get_crds_table may be handed.
NodeLists == UNION {Perms(S) : S \in SUBSET Nodes}

\* The tables of the nodes of ns, in order.
TablesOf(ns) == [i \in DOMAIN ns |-> table[ns[i]]]

\* C18: for every list of nodes, get_crds_table returns a map whose keys are
\* the union of the nodes' table keys and whose value for a key is the
\* largest ordinal any of the nodes holds for it; when the key's origin is
\* among the nodes, the origin holds the key and the value is the origin's
\* own ordinal.
C18_CrdsTable ==
    \A ns \in NodeLists :
        LET out == get_crds_table(TablesOf(ns))
            among == {ns[i] : i \in DOMAIN ns}
        IN  /\ DOMAIN out = UNION {DOMAIN table[n] : n \in among}
            /\ \A k \in DOMAIN out :
                  /\ \E n \in among : /\ k \in DOMAIN table[n]
                                       /\ out[k] = table[n][k].ordinal
                  /\ \A n \in among : out[k] >= OrdinalAt(n, k)
                  /\ k.origin \in among =>
                        /\ k \in DOMAIN table[k.origin]
                        /\ out[k] = table[k.origin][k].ordinal

\* C18 witness: a key held at ordinal 2 by its origin and at ordinal 1 by
\* another node, for which get_crds_table over the origin followed by that
\* node gives 2, and over that node alone gives 1.
C18_Witness ==
    \E k \in AllKeys : \E n \in Nodes \ {k.origin} :
        /\ HoldsAtLeast(k.origin, k, 2) /\ table[k.origin][k].ordinal = 2
        /\ HoldsAtLeast(n, k, 1) /\ table[n][k].ordinal = 1
        /\ get_crds_table(TablesOf(<<k.origin, n>>))[k] = 2
        /\ get_crds_table(TablesOf(<<n>>))[k] = 1

\* The keys upsert Accepted in the drain of the last round, the keys its
\* refresh_entries minted, and the keys the drain saw without accepting any
\* of their packets.
AcceptedKeys ==
    {last.records[i].key :
        i \in {j \in DOMAIN last.records : last.records[j].result = "Ok"}}

MintedKeys ==
    IF last.refreshed THEN RefreshedKeys(last.node, last.indices) ELSE {}

StaleKeys == {last.records[i].key : i \in DOMAIN last.records} \ AcceptedKeys

\* What holds of the Push sends of the last round whichever keys are held
\* back: every Push is for a key Accepted in the round's drain or minted by
\* its refresh_entries and carries the ordinal the node's table holds for the
\* key; the keys fanned out (none when send_prunes failed) are each listed
\* once, and a key's Push sends are one run of the same packet to distinct
\* peers.
ForwardedFresh ==
    /\ \A i \in PushSends :
          LET packet == last.sent[i].packet IN
          /\ packet.from = last.node
          /\ packet.key \in AcceptedKeys \cup MintedKeys
          /\ packet.key \in DOMAIN table[last.node]
          /\ packet.ordinal = table[last.node][packet.key].ordinal
    /\ \A i, j \in DOMAIN last.keys : last.keys[i] = last.keys[j] => i = j
    /\ {last.keys[i] : i \in DOMAIN last.keys} =
          (IF last.refreshed THEN AcceptedKeys \cup MintedKeys ELSE {})
    /\ \A i, j \in PushSends :
          last.sent[i].packet.key = last.sent[j].packet.key =>
              /\ last.sent[i].to = last.sent[j].to => i = j
              /\ \A m \in PushSends :
                    (i <= m /\ m <= j) =>
                        last.sent[m].packet.key = last.sent[i].packet.key

\* C19 (amended): every Push of a round is for a key Accepted in the round's
\* drain or minted by its refresh_entries, fanned out once and with the
\* table's ordinal; a key whose packets were all Duplicate or Outdated gets
\* no Push unless the round's refresh_entries minted it.
C19_ForwardOnlyFresh ==
    RoundSeen =>
        /\ ForwardedFresh
        /\ \A k \in StaleKeys \ MintedKeys : PushesOf(k) = {}

\* C19 as stated: as above, with no Push for any key whose packets were all
\* Duplicate or Outdated.
C19_ForwardNoStale ==
    RoundSeen =>
        /\ ForwardedFresh
        /\ \A k \in StaleKeys : PushesOf(k) = {}

\* C19 witness: a round that found every Push of some key Duplicate or
\* Outdated and sent none for it, while it sent a Push for a key it accepted
\* and for a key its refresh_entries drew twice.
C19_Witness ==
    /\ RoundSeen /\ StaleKeys # {}
    /\ \E k \in AcceptedKeys : PushesOf(k) # {}
    /\ \E i, j \in DOMAIN last.indices :
          /\ i # j /\ last.indices[i] = last.indices[j]
          /\ PushesOf(CrdsKey(last.node, last.indices[i])) # {}

\* The number of Push packets upsert Accepted in the drain of a round
\* observed as obs.
NumAccepted(obs) ==
    Cardinality({i \in DOMAIN obs.records : obs.records[i].result = "Ok"})

\* C20: the ConsumeOutput of every round has num_packets equal to the number
\* of packets the channel held, and to num_prunes + num_outdated +
\* num_duplicates + the number of Accepted pushes; its key set is no larger
\* than the number of Accepted pushes; and num_packets >= num_prunes, so
\* num_packets - num_prunes in get_ratio does not underflow.
C20_CounterAccounting ==
    [][\A n \in Nodes :
          num_gossip_rounds'[n] # num_gossip_rounds[n] =>
            LET out == last'.out IN
            /\ out.num_packets = Len(receiver[n])
            /\ out.num_packets = out.num_prunes + out.num_outdated
                                    + out.num_duplicates + NumAccepted(last')
            /\ out.num_prunes = Len(receiver[n]) - Len(PushesIn(receiver[n]))
            /\ Cardinality(out.keys) <= NumAccepted(last')
            /\ out.num_packets >= out.num_prunes
            /\ out.num_packets - out.num_prunes \in Nat]_vars

\* C20 witness: a round whose drain held a Prune and accepted two Push
\* packets of one key (the key set is smaller than the number of Accepted
\* pushes).
C20_Witness ==
    /\ RoundSeen /\ last.out.num_prunes >= 1
    /\ Cardinality(last.out.keys) < NumAccepted(last)
    /\ last.out.num_packets
          = last.out.num_prunes + last.out.num_outdated
              + last.out.num_duplicates + NumAccepted(last)

====
